---- MODULE Spec2Model ----
(***************************************************************************)
(* Vessel kinematic state machine (ShipMarkers) and camera transition      *)
(* controllers (ShipMarkers return transition, SkyToView fly-to) of the    *)
(* show-vessel globe.                                                      *)
(*                                                                         *)
(* Numbers are fixed point:                                                *)
(*   - a position is a triple of integers in units of 1e-4 scene units,    *)
(*   - latitude and longitude are integers in units of 1e-5 degree,        *)
(*   - a vessel progress (interpolationProgress, routeProgress) is an      *)
(*     integer in units of 1/1000, a camera progress in units of 1/200,    *)
(*   - a frame delta is an integer number of seconds,                      *)
(*   - a speed is an integer number of knots.                              *)
(***************************************************************************)
EXTENDS Integers, Sequences, FiniteSets, TLC

VARIABLES shipMeshes, sinceReport

\* ShipMarkers (camera version): React state and refs, the three.js camera
\* and scene, the mounted SkyToView instance and the model loads in flight
VARIABLES viewState, isLoading, error, cameraTransitionRef, camera, scene,
          skyToView, pendingLoads, sessions

\* history: transitions that wrote camera.position in the last frame, frames
\* the return transition advanced
VARIABLES frameWriters, returnTicks

vesselVars == <<shipMeshes, sinceReport>>
cameraVars == <<viewState, isLoading, error, cameraTransitionRef, camera, scene,
                skyToView, pendingLoads, sessions, frameWriters, returnTicks>>
\* a call of a pure function of the sources: its arguments and what it returned
VARIABLES call, result

\* App: the ships list, the connection indicators and the polls in flight;
\* history: the outcome of the poll that completed last
VARIABLES ships, connectionStatus, isOnline, inflight, lastOutcome
\* history: for every poll in flight, in the order of issue, whether a poll
\* issued after it has succeeded already; and whether the list held comes
\* from a poll issued before one that has succeeded
VARIABLES overtaken, stale

\* ShipInspectionScene: whether the scene is mounted, the isAnimating state
\* of InspectionScene, its 3000 ms timer, the animation record of
\* CameraController and the camera of the inspection canvas
VARIABLES showInspectionScene, isAnimating, timer, animationRef, inspectionCamera

\* App: the selected vessel, the route state and the route requests in
\* flight (the props selectedShipId and route of ShipMarkers)
VARIABLES appSelectedShipId, appRoute, routeFetches

\* ShipMarkers: the dependencies of the updateShipMeshes callback of the
\* mounted version (Null before the mount), whether the effect on
\* [ships, updateShipMeshes] is due, and history: its runs since ships changed
VARIABLES callbackDeps, effectDue, effectRuns

effectVars == <<callbackDeps, effectDue, effectRuns>>
routeVars == <<appSelectedShipId, appRoute, routeFetches>>
pureVars == <<call, result>>
pollVars ==
  <<ships, connectionStatus, isOnline, inflight, lastOutcome, overtaken, stale>>
inspectionVars ==
  <<showInspectionScene, isAnimating, timer, animationRef, inspectionCamera>>
vars ==
  <<vesselVars, cameraVars, pureVars, pollVars, inspectionVars, routeVars, effectVars>>

\* what the actions of one component leave alone
notVessel ==
  <<cameraVars, pureVars, pollVars, inspectionVars, routeVars, effectVars>>
notCamera ==
  <<vesselVars, pureVars, pollVars, inspectionVars, routeVars, effectVars>>
notPure ==
  <<vesselVars, cameraVars, pollVars, inspectionVars, routeVars, effectVars>>
notPoll ==
  <<vesselVars, cameraVars, pureVars, inspectionVars, routeVars, effectVars>>
notInspection ==
  <<vesselVars, cameraVars, pureVars, pollVars, routeVars, effectVars>>
\* the route requests write the vessel map as well
notRoute == <<sinceReport, cameraVars, pureVars, pollVars, inspectionVars, effectVars>>
\* the effect writes the vessel map and reads the ships state
notEffect == <<cameraVars, pureVars, inspectionVars, routeVars>>

\* null: of a string, of an object reference, of a Vector3, of a model
Null == "null"
NullRecord == [null |-> TRUE]
NullVector == << >>
NullModel == 0

(***************************************************************************)
(* Constants of the source, in fixed point.                                *)
(***************************************************************************)
\* const radius = 2.02, in 1e-4 units
radius == 20200
\* the GPS-noise threshold 0.001 of updateShipMeshes, in 1e-4 units
NoiseThreshold == 10
\* the value 1 of Math.min(1, ...), in units of 1/1000
One == 1000
\* the minimum-motion threshold 0.01 of the orientation update, in 1/1000
OrientThreshold == 10
\* routeProgress advances by delta * 0.01: per second, in units of 1/1000
RouteSpeed == 10

(***************************************************************************)
(* Inputs.                                                                 *)
(***************************************************************************)
Ids == {"s1", "s2"}
\* reported longitudes on the equator: 0, 0.02836 (chord 0.001 from 0, the
\* threshold itself), 0.03 (chord 0.0011, just beyond) and 0.08 degrees
ReportLons == {0, 2836, 3000, 8000}
Speeds == {0, 36}
Headings == {90}
Deltas == {0, 25}

\* s1 reports from every position at every speed, s2 lies at its berth
Ships ==
  [id : {"s1"}, lat : {0}, lon : ReportLons, heading : Headings, speed : Speeds]
    \cup [id : {"s2"}, lat : {0}, lon : {0}, heading : Headings, speed : {0}]

\* a feed is an array of reports, one at most for each id
Feeds ==
  {f \in UNION {[1..n -> Ships] : n \in 0..Cardinality(Ids)} :
     \A i, j \in DOMAIN f : f[i].id = f[j].id => i = j}

Waypoint(lon) == [latitude |-> 0, longitude |-> lon]
Routes == {<<>>, <<Waypoint(0)>>, <<Waypoint(0), Waypoint(8000)>>}

\* cap of the time-since-report history counter, in seconds
MaxSince == 50

(***************************************************************************)
(* THREE.Vector3 arithmetic on integer triples.                            *)
(***************************************************************************)
Sub(a, b) == <<a[1] - b[1], a[2] - b[2], a[3] - b[3]>>

DistSq(a, b) ==
  LET d == Sub(a, b) IN d[1] * d[1] + d[2] * d[2] + d[3] * d[3]

RECURSIVE ISqrtIn(_, _, _)
ISqrtIn(n, lo, hi) ==
  IF lo >= hi THEN lo
  ELSE LET mid == (lo + hi + 1) \div 2 IN
       IF mid * mid <= n THEN ISqrtIn(n, mid, hi) ELSE ISqrtIn(n, lo, mid - 1)

\* Vector3.distanceTo, rounded down to the unit
distanceTo(a, b) == ISqrtIn(DistSq(a, b), 0, 2 * radius)

\* Vector3.lerpVectors(a, b, p) with p in units of 1/scale
LerpScaled(a, b, p, scale) ==
  <<a[1] + ((b[1] - a[1]) * p) \div scale,
    a[2] + ((b[2] - a[2]) * p) \div scale,
    a[3] + ((b[3] - a[3]) * p) \div scale>>

lerpVectors(a, b, p) == LerpScaled(a, b, p, One)

Sign(n) == IF n > 0 THEN 1 ELSE IF n < 0 THEN -1 ELSE 0

\* Vector3.normalize: exact for a vector along one axis, and otherwise the
\* vector itself stands for its direction
normalize(v) ==
  IF Cardinality({i \in 1..3 : v[i] # 0}) = 1
  THEN <<Sign(v[1]), Sign(v[2]), Sign(v[3])>>
  ELSE v

(***************************************************************************)
(* latLonToVector3(lat, lon, radius) for radius 2.02: the values of        *)
(*   (-r sin(phi) cos(theta), r cos(phi), r sin(phi) sin(theta)),          *)
(*   phi = (90 - lat) pi / 180, theta = (lon + 180) pi / 180               *)
(* rounded to 1e-4, for the points the inputs and the routes reach.        *)
(***************************************************************************)
latLonToVector3(lat, lon) ==
  CASE lat = 0 /\ lon = 0    -> <<20200, 0, 0>>
    [] lat = 0 /\ lon = 1000 -> <<20200, 0, -4>>
    [] lat = 0 /\ lon = 2000 -> <<20200, 0, -7>>
    [] lat = 0 /\ lon = 2836 -> <<20200, 0, -10>>
    [] lat = 0 /\ lon = 3000 -> <<20200, 0, -11>>
    [] lat = 0 /\ lon = 4000 -> <<20200, 0, -14>>
    [] lat = 0 /\ lon = 5000 -> <<20200, 0, -18>>
    [] lat = 0 /\ lon = 6000 -> <<20200, 0, -21>>
    [] lat = 0 /\ lon = 7000 -> <<20200, 0, -25>>
    [] lat = 0 /\ lon = 8000 -> <<20200, 0, -28>>

\* (knots * 0.01) / 3600 scene units per second, here in 1e-4 units per hour
knotsToUnitsPerSecond(knots) == knots * 100

\* variant: the fallback as a lower bound, max(speed, 0.001)
SpeedOrFallback_Max(speed) == IF speed < 36000 THEN 36000 ELSE speed

\* the fallback 0.001 of (speed || 0.001), in 1e-4 units per hour
SpeedOrFallback(speed) == IF speed = 0 THEN 36000 ELSE speed

(***************************************************************************)
(* interpolateAlongRoute(route, progress, radius).  The two quaternions    *)
(* rotate (0, 0, 1) onto the segment's end points; for waypoints on the    *)
(* equator both are rotations about the y axis, so their slerp is the      *)
(* rotation about y by the interpolated angle and the result is the        *)
(* projection of the interpolated longitude.                               *)
(***************************************************************************)
Zero == <<0, 0, 0>>

\* variant: the segment is walked from its end to its start
interpolateAlongRoute_Swapped(route, progress) ==
  IF Len(route) < 2 THEN Zero
  ELSE LET totalSegments == Len(route) - 1
           segmentProgress == progress * totalSegments
           currentSegment == segmentProgress \div One
           segmentT == segmentProgress % One
       IN IF currentSegment >= totalSegments
          THEN latLonToVector3(route[Len(route)].latitude, route[Len(route)].longitude)
          ELSE LET start == route[currentSegment + 2]
                   end == route[currentSegment + 1]
               IN latLonToVector3(
                    start.latitude + ((end.latitude - start.latitude) * segmentT) \div One,
                    start.longitude + ((end.longitude - start.longitude) * segmentT) \div One)

interpolateAlongRoute(route, progress) ==
  IF Len(route) < 2 THEN Zero
  ELSE LET totalSegments == Len(route) - 1
           segmentProgress == progress * totalSegments
           currentSegment == segmentProgress \div One
           segmentT == segmentProgress % One
       IN IF currentSegment >= totalSegments
          THEN latLonToVector3(route[Len(route)].latitude, route[Len(route)].longitude)
          ELSE LET start == route[currentSegment + 1]
                   end == route[currentSegment + 2]
               IN latLonToVector3(
                    start.latitude + ((end.latitude - start.latitude) * segmentT) \div One,
                    start.longitude + ((end.longitude - start.longitude) * segmentT) \div One)

(***************************************************************************)
(* Orientation.  A quaternion is kept as the vectors it is built from.     *)
(***************************************************************************)
\* new THREE.Quaternion().setFromUnitVectors((0,-1,0), normalize(pos))
setFromUnitVectors(pos) ==
  [kind |-> "fromUnitVectors", up |-> normalize(pos), dir |-> Zero]

\* makeBasis(right, up, forward) with up = normalize(currentPosition),
\* right = normalize(up x dir), forward = normalize(right x up)
setFromRotationMatrix(currentPosition, dir) ==
  [kind |-> "basis", up |-> normalize(currentPosition), dir |-> dir]

(***************************************************************************)
(* updateShipMeshes(newShips)                                              *)
(***************************************************************************)
\* variant: a report that leaves targetPosition where it was keeps the
\* progress
UpdateExisting_KeepProgress(existing, ship) ==
  LET newTargetPos == latLonToVector3(ship.lat, ship.lon)
      moved == DistSq(existing.currentPosition, newTargetPos)
                 > NoiseThreshold * NoiseThreshold
  IN [existing EXCEPT
        !.previousPosition = existing.currentPosition,
        !.targetPosition = newTargetPos,
        !.heading = ship.heading,
        !.speed = ship.speed,
        !.interpolationProgress =
           IF newTargetPos = existing.targetPosition THEN @ ELSE 0,
        !.isMoving = moved /\ ship.speed > 0]

\* variant: isMoving without the speed test
UpdateExisting_IgnoreSpeed(existing, ship) ==
  LET newTargetPos == latLonToVector3(ship.lat, ship.lon)
      moved == DistSq(existing.currentPosition, newTargetPos)
                 > NoiseThreshold * NoiseThreshold
  IN [existing EXCEPT
        !.previousPosition = existing.currentPosition,
        !.targetPosition = newTargetPos,
        !.heading = ship.heading,
        !.speed = ship.speed,
        !.interpolationProgress = 0,
        !.isMoving = moved]

\* variant: previousPosition taken from the old target
UpdateExisting_FromTarget(existing, ship) ==
  LET newTargetPos == latLonToVector3(ship.lat, ship.lon)
      moved == DistSq(existing.currentPosition, newTargetPos)
                 > NoiseThreshold * NoiseThreshold
  IN [existing EXCEPT
        !.previousPosition = existing.targetPosition,
        !.targetPosition = newTargetPos,
        !.heading = ship.heading,
        !.speed = ship.speed,
        !.interpolationProgress = 0,
        !.isMoving = moved /\ ship.speed > 0]

\* variant: the noise test with >= in place of >
UpdateExisting_AtThreshold(existing, ship) ==
  LET newTargetPos == latLonToVector3(ship.lat, ship.lon)
      moved == DistSq(existing.currentPosition, newTargetPos)
                 >= NoiseThreshold * NoiseThreshold
  IN [existing EXCEPT
        !.previousPosition = existing.currentPosition,
        !.targetPosition = newTargetPos,
        !.heading = ship.heading,
        !.speed = ship.speed,
        !.interpolationProgress = 0,
        !.isMoving = moved /\ ship.speed > 0]

\* the record written for an id that prev already holds
UpdateExisting(existing, ship) ==
  LET newTargetPos == latLonToVector3(ship.lat, ship.lon)
      moved == DistSq(existing.currentPosition, newTargetPos)
                 > NoiseThreshold * NoiseThreshold
  IN [existing EXCEPT
        !.previousPosition = existing.currentPosition,
        !.targetPosition = newTargetPos,
        !.heading = ship.heading,
        !.speed = ship.speed,
        !.interpolationProgress = 0,
        !.isMoving = moved /\ ship.speed > 0]

\* the record written for an id that prev does not hold
CreateShip(ship) ==
  LET pos == latLonToVector3(ship.lat, ship.lon)
  IN [id |-> ship.id,
      currentPosition |-> pos,
      targetPosition |-> pos,
      previousPosition |-> pos,
      quaternion |-> setFromUnitVectors(pos),
      heading |-> ship.heading,
      speed |-> ship.speed,
      interpolationProgress |-> One,
      isMoving |-> FALSE,
      route |-> <<>>,
      routeProgress |-> 0,
      currentRouteSegment |-> 0]

FeedIds(newShips) == {newShips[i].id : i \in DOMAIN newShips}

\* the report of an id in the feed (Map.set in forEach order)
LastReport(newShips, id) ==
  newShips[CHOOSE i \in DOMAIN newShips :
             /\ newShips[i].id = id
             /\ \A j \in DOMAIN newShips : newShips[j].id = id => j <= i]

\* variant: the ids the feed does not list are kept
updateShipMeshes_KeepAbsent(prev, newShips) ==
  [id \in FeedIds(newShips) \cup DOMAIN prev |->
     IF id \notin FeedIds(newShips) THEN prev[id]
     ELSE IF id \in DOMAIN prev
     THEN UpdateExisting(prev[id], LastReport(newShips, id))
     ELSE CreateShip(LastReport(newShips, id))]

updateShipMeshes(prev, newShips) ==
  [id \in FeedIds(newShips) |->
     IF id \in DOMAIN prev
     THEN UpdateExisting(prev[id], LastReport(newShips, id))
     ELSE CreateShip(LastReport(newShips, id))]

(***************************************************************************)
(* useEffect([selectedShipId, route]): the route update                    *)
(***************************************************************************)
SetRoute(ship, route) ==
  [ship EXCEPT !.route = route, !.routeProgress = 0, !.currentRouteSegment = 0]

\* variant: the route is given to every vessel
updateRoute_AllVessels(prev, selectedShipId, route) ==
  IF selectedShipId # Null /\ Len(route) > 0 /\ selectedShipId \in DOMAIN prev
  THEN [id \in DOMAIN prev |-> SetRoute(prev[id], route)]
  ELSE prev

updateRoute(prev, selectedShipId, route) ==
  IF selectedShipId # Null /\ Len(route) > 0 /\ selectedShipId \in DOMAIN prev
  THEN [prev EXCEPT ![selectedShipId] = SetRoute(prev[selectedShipId], route)]
  ELSE prev

(***************************************************************************)
(* useFrame((_, delta) => ...): the vessel tick                            *)
(***************************************************************************)
Min(a, b) == IF a < b THEN a ELSE b

\* delta / timeToTarget, timeToTarget = distance / (speed || 0.001)
ProgressStep(ship, delta) ==
  LET speed == knotsToUnitsPerSecond(ship.speed)
      distance == distanceTo(ship.previousPosition, ship.targetPosition)
  IN (One * delta * SpeedOrFallback(speed)) \div (3600 * distance)

\* variant: no snap to the target on completion
TickShip_NoSnap(ship, delta) ==
  IF ship.isMoving /\ ship.interpolationProgress < One
  THEN
    LET progress == Min(One, ship.interpolationProgress + ProgressStep(ship, delta))
        hasRoute == Len(ship.route) > 1
        moved == IF hasRoute
                 THEN interpolateAlongRoute(ship.route, ship.routeProgress)
                 ELSE lerpVectors(ship.previousPosition, ship.targetPosition, progress)
        dir == normalize(Sub(ship.targetPosition, ship.previousPosition))
    IN [ship EXCEPT
          !.interpolationProgress = progress,
          !.routeProgress = IF hasRoute
                            THEN Min(One, ship.routeProgress + delta * RouteSpeed)
                            ELSE @,
          !.quaternion = IF progress > OrientThreshold /\ dir # Zero
                         THEN setFromRotationMatrix(moved, dir)
                         ELSE @,
          !.isMoving = IF progress >= One THEN FALSE ELSE @,
          !.currentPosition = moved]
  ELSE ship

TickShip(ship, delta) ==
  IF ship.isMoving /\ ship.interpolationProgress < One
  THEN
    LET progress == Min(One, ship.interpolationProgress + ProgressStep(ship, delta))
        hasRoute == Len(ship.route) > 1
        moved == IF hasRoute
                 THEN interpolateAlongRoute(ship.route, ship.routeProgress)
                 ELSE lerpVectors(ship.previousPosition, ship.targetPosition, progress)
        dir == normalize(Sub(ship.targetPosition, ship.previousPosition))
    IN [ship EXCEPT
          !.interpolationProgress = progress,
          !.routeProgress = IF hasRoute
                            THEN Min(One, ship.routeProgress + delta * RouteSpeed)
                            ELSE @,
          !.quaternion = IF progress > OrientThreshold /\ dir # Zero
                         THEN setFromRotationMatrix(moved, dir)
                         ELSE @,
          !.isMoving = IF progress >= One THEN FALSE ELSE @,
          !.currentPosition = IF progress >= One THEN ship.targetPosition ELSE moved]
  ELSE ship

tickShipMeshes(prev, delta) == [id \in DOMAIN prev |-> TickShip(prev[id], delta)]

(***************************************************************************)
(* History: seconds ticked since the last report of a vessel, kept while   *)
(* its interpolationProgress is below 1 and capped at MaxSince.            *)
(***************************************************************************)
SinceAfter(meshes, since, delta) ==
  [id \in DOMAIN meshes |->
     IF meshes[id].interpolationProgress >= One THEN 0
     ELSE Min(MaxSince, (IF id \in DOMAIN since THEN since[id] ELSE 0) + delta)]


(***************************************************************************)
(* Camera: constants and data of ShipMarkers (camera version) and          *)
(* SkyToView.  Camera-space positions are in units of 1e-3, a camera       *)
(* progress is in units of 1/200.                                          *)
(***************************************************************************)
\* the value 1 of progress >= 1, in units of 1/200
CamOne == 200
\* transition.progress += 0.02
ReturnStep == 4
\* const ANIMATION_SPEED = 0.015
ANIMATION_SPEED == 3

\* camera={{ position: [3, 2, -3] }}
InitialCameraPosition == <<3000, 2000, -3000>>

\* useMockShips(): the first two of its four ships
MockShips == {"ship1", "ship2"}

\* latLonToVector3(ship.lat, ship.lon, 2.05) of the mock ships
ShipPosition(id) ==
  CASE id = "ship1" -> <<780, 461, -1839>>
    [] id = "ship2" -> <<829, 599, -1777>>

\* position + normalize(position) * 0.05
ElevatedShipPos(id) ==
  CASE id = "ship1" -> <<800, 472, -1884>>
    [] id = "ship2" -> <<849, 614, -1820>>

\* shipModelPos + up * CAMERA_HEIGHT_OFFSET - forwardDir * CAMERA_DISTANCE_OFFSET
calculateCameraPosition(id) ==
  CASE id = "ship1" -> <<962, 671, -2267>>
    [] id = "ship2" -> <<940, 746, -2253>>

\* shipModelPos + forwardDir * 0.1
calculateCameraTarget(id) ==
  CASE id = "ship1" -> <<790, 364, -1860>>
    [] id = "ship2" -> <<920, 600, -1735>>

\* inputs: the user acts when no transition is animating, or when the
\* transition started last has advanced LateInput frames; at most
\* MaxSessions sky-view sessions are opened
LateInput == 20
InputFrames == {LateInput}
MaxSessions == 2

NormalView ==
  [mode |-> "normal", selectedShip |-> Null,
   originalCameraPosition |-> NullVector, loadedModel |-> NullModel]

ReturnActive == cameraTransitionRef # NullRecord /\ cameraTransitionRef.isAnimating
FlyActive == skyToView # NullRecord /\ skyToView.animationRef.isAnimating
UserMayAct ==
  IF FlyActive
  THEN skyToView.animationRef.progress \in {n * ANIMATION_SPEED : n \in InputFrames}
  ELSE ReturnActive => returnTicks \in InputFrames

\* variant: completion tested with > 1
MarkersFrame_Strict(transition, cam, selectedShip) ==
  IF transition # NullRecord /\ transition.isAnimating
  THEN LET progress == transition.progress + ReturnStep
           done == progress > CamOne
       IN [ref |-> IF done THEN NullRecord ELSE [transition EXCEPT !.progress = progress],
           camera |->
             [position |-> IF done THEN transition.targetPos
                           ELSE LerpScaled(transition.startPos, transition.targetPos,
                                           progress, CamOne),
              lookAt |-> IF selectedShip # Null THEN ElevatedShipPos(selectedShip)
                         ELSE cam.lookAt],
           wrote |-> 1,
           looked |-> selectedShip # Null]
  ELSE [ref |-> transition, camera |-> cam, wrote |-> 0, looked |-> FALSE]

\* useFrame of ShipMarkers: the return transition; wrote counts the writes
\* of camera.position, looked is TRUE when the frame calls camera.lookAt
MarkersFrame(transition, cam, selectedShip) ==
  IF transition # NullRecord /\ transition.isAnimating
  THEN LET progress == transition.progress + ReturnStep
           done == progress >= CamOne
       IN [ref |-> IF done THEN NullRecord ELSE [transition EXCEPT !.progress = progress],
           camera |->
             [position |-> IF done THEN transition.targetPos
                           ELSE LerpScaled(transition.startPos, transition.targetPos,
                                           progress, CamOne),
              lookAt |-> IF selectedShip # Null THEN ElevatedShipPos(selectedShip)
                         ELSE cam.lookAt],
           wrote |-> 1,
           looked |-> selectedShip # Null]
  ELSE [ref |-> transition, camera |-> cam, wrote |-> 0, looked |-> FALSE]

\* variant: the model load is started in every frame of the transition
SkyFrame_LoadEveryFrame(sky, cam) ==
  IF sky # NullRecord /\ sky.animationRef.isAnimating
  THEN LET anim == sky.animationRef
           progress == anim.progress + ANIMATION_SPEED
           done == progress >= CamOne
       IN [sky |-> [sky EXCEPT !.animationRef.progress = progress,
                               !.animationRef.isAnimating = ~done],
           camera |->
             [position |-> IF done THEN anim.targetPos
                           ELSE LerpScaled(anim.startPos, anim.targetPos, progress, CamOne),
              lookAt |-> IF done THEN anim.endTarget
                         ELSE LerpScaled(anim.startTarget, anim.endTarget, progress, CamOne)],
           load |-> TRUE,
           wrote |-> 1,
           looked |-> TRUE]
  ELSE [sky |-> sky, camera |-> cam, load |-> FALSE, wrote |-> 0, looked |-> FALSE]

\* useFrame of SkyToView: the fly-to transition; load is TRUE when the frame
\* calls loadModel()
SkyFrame(sky, cam) ==
  IF sky # NullRecord /\ sky.animationRef.isAnimating
  THEN LET anim == sky.animationRef
           progress == anim.progress + ANIMATION_SPEED
           done == progress >= CamOne
       IN [sky |-> [sky EXCEPT !.animationRef.progress = progress,
                               !.animationRef.isAnimating = ~done],
           camera |->
             [position |-> IF done THEN anim.targetPos
                           ELSE LerpScaled(anim.startPos, anim.targetPos, progress, CamOne),
              lookAt |-> IF done THEN anim.endTarget
                         ELSE LerpScaled(anim.startTarget, anim.endTarget, progress, CamOne)],
           load |-> done,
           wrote |-> 1,
           looked |-> TRUE]
  ELSE [sky |-> sky, camera |-> cam, load |-> FALSE, wrote |-> 0, looked |-> FALSE]

\* both callbacks of one frame, ShipMarkers' (subscribed first) before
\* SkyToView's
AfterMarkersFrame ==
  MarkersFrame(cameraTransitionRef, camera, viewState.selectedShip)
AfterSkyFrame == SkyFrame(skyToView, AfterMarkersFrame.camera)

\* the mount effect of SkyToView: the animation record
MountSkyToView(shipId, session, cameraPosition) ==
  [session |-> session,
   modelRef |-> NullModel,
   animationRef |->
     [progress |-> 0,
      startPos |-> cameraPosition,
      targetPos |-> calculateCameraPosition(shipId),
      startTarget |-> Zero,
      endTarget |-> calculateCameraTarget(shipId),
      isAnimating |-> TRUE]]

\* the unmount cleanup of SkyToView: scene.remove(modelRef.current)
SceneAfterUnmount(sc, sky) ==
  IF sky # NullRecord /\ sky.modelRef # NullModel THEN sc \ {sky.modelRef} ELSE sc

(***************************************************************************)
(* Actions of the vessel state machine                                     *)
(***************************************************************************)
\* the vessel map each operation leaves, applied to the current state
AfterFeed(newShips) == updateShipMeshes(shipMeshes, newShips)
AfterRoute(selectedShipId, route) == updateRoute(shipMeshes, selectedShipId, route)
AfterTick(delta) == tickShipMeshes(shipMeshes, delta)

\* no call made, nothing returned
NoCall == [fn |-> "none"]
NoResult == [returned |-> FALSE]
Returned(value) == [returned |-> TRUE, value |-> value]

\* the state after construction of the vessel and camera components
SystemInit ==
  /\ shipMeshes = << >>
  /\ sinceReport = << >>
  /\ viewState = NormalView
  /\ isLoading = FALSE
  /\ error = Null
  /\ cameraTransitionRef = NullRecord
  /\ camera = [position |-> InitialCameraPosition, lookAt |-> Zero]
  /\ scene = {}
  /\ skyToView = NullRecord
  /\ pendingLoads = {}
  /\ sessions = 0
  /\ frameWriters = 0
  /\ returnTicks = 0
  /\ ships = << >>
  /\ connectionStatus = "connecting"
  /\ isOnline = TRUE
  /\ inflight = 0
  /\ lastOutcome = NoResult
  /\ overtaken = << >>
  /\ stale = FALSE
  /\ showInspectionScene = FALSE
  /\ isAnimating = FALSE
  /\ timer = FALSE
  /\ animationRef = NullRecord
  /\ inspectionCamera = NullVector
  /\ appSelectedShipId = Null
  /\ appRoute = << >>
  /\ routeFetches = {}
  /\ callbackDeps = Null
  /\ effectDue = FALSE
  /\ effectRuns = 0

Init ==
  /\ SystemInit
  /\ call = NoCall
  /\ result = NoResult

ApplyFeed(newShips) ==
  /\ shipMeshes' = AfterFeed(newShips)
  /\ sinceReport' = [id \in FeedIds(newShips) |-> 0]
  /\ UNCHANGED notVessel

ApplyRoute(selectedShipId, route) ==
  /\ shipMeshes' = AfterRoute(selectedShipId, route)
  /\ UNCHANGED sinceReport
  /\ UNCHANGED notVessel

Tick(delta) ==
  /\ shipMeshes' = AfterTick(delta)
  /\ sinceReport' = SinceAfter(shipMeshes', sinceReport, delta)
  /\ UNCHANGED notVessel

Next ==
  \/ \E newShips \in Feeds : ApplyFeed(newShips)
  \/ \E selectedShipId \in Ids \cup {Null}, route \in Routes : ApplyRoute(selectedShipId, route)
  \/ \E delta \in Deltas : Tick(delta)

Spec == Init /\ [][Next]_vars

(***************************************************************************)
(* Actions of the camera controllers                                       *)
(***************************************************************************)
\* a click on a marker
handleShipSelect(shipId) ==
  /\ UserMayAct
  /\ error = Null
  /\ viewState.mode # "skyview"
  /\ viewState' = [viewState EXCEPT !.selectedShip = shipId]
  /\ UNCHANGED <<isLoading, error, cameraTransitionRef, camera, scene, skyToView,
                 pendingLoads, sessions, frameWriters, returnTicks>>

\* the View Details button of the info panel; SkyToView mounts and its
\* effect creates the fly-to record
handleViewDetails ==
  /\ UserMayAct
  /\ error = Null
  /\ viewState.mode = "normal"
  /\ viewState.selectedShip # Null
  /\ ~isLoading
  /\ sessions < MaxSessions
  /\ isLoading' = TRUE
  /\ error' = Null
  /\ viewState' = [mode |-> "skyview",
                   selectedShip |-> viewState.selectedShip,
                   originalCameraPosition |-> camera.position,
                   loadedModel |-> NullModel]
  /\ sessions' = sessions + 1
  /\ skyToView' = MountSkyToView(viewState.selectedShip, sessions + 1, camera.position)
  /\ UNCHANGED <<cameraTransitionRef, camera, scene, pendingLoads,
                 frameWriters, returnTicks>>

\* the close control of sky view, or Escape in sky view; SkyToView unmounts
handleCloseSkyToView ==
  /\ UserMayAct
  /\ viewState.originalCameraPosition # NullVector
  /\ viewState.mode = "skyview"
  /\ scene' = SceneAfterUnmount(scene \ {viewState.loadedModel}, skyToView)
  /\ cameraTransitionRef' = [progress |-> 0,
                             startPos |-> camera.position,
                             targetPos |-> viewState.originalCameraPosition,
                             isAnimating |-> TRUE]
  /\ viewState' = NormalView
  /\ isLoading' = FALSE
  /\ error' = Null
  /\ skyToView' = NullRecord
  /\ returnTicks' = 0
  /\ UNCHANGED <<camera, pendingLoads, sessions, frameWriters>>

\* the close button of the info panel, or Escape in normal mode
handleCloseShipInfo ==
  /\ UserMayAct
  /\ viewState.mode = "normal"
  /\ viewState.selectedShip # Null
  /\ viewState' = [viewState EXCEPT !.selectedShip = Null]
  /\ UNCHANGED <<isLoading, error, cameraTransitionRef, camera, scene, skyToView,
                 pendingLoads, sessions, frameWriters, returnTicks>>

\* one rendered frame: the useFrame callback of ShipMarkers, then the one of
\* SkyToView, which starts the model load when its transition completes
Frame ==
  /\ cameraTransitionRef' = AfterMarkersFrame.ref
  /\ skyToView' = AfterSkyFrame.sky
  /\ camera' = AfterSkyFrame.camera
  /\ pendingLoads' = IF AfterSkyFrame.load
                     THEN pendingLoads \cup {skyToView.session}
                     ELSE pendingLoads
  /\ frameWriters' = AfterMarkersFrame.wrote + AfterSkyFrame.wrote
  /\ returnTicks' = returnTicks + AfterMarkersFrame.wrote
  /\ UNCHANGED <<viewState, isLoading, error, scene, sessions>>

\* the success callback of loader.load for the load started by session s
LoadDone(s) ==
  /\ s \in pendingLoads
  /\ pendingLoads' = pendingLoads \ {s}
  /\ IF skyToView # NullRecord /\ skyToView.session = s
     THEN /\ scene' = (scene \ {skyToView.modelRef}) \cup {s}
          /\ skyToView' = [skyToView EXCEPT !.modelRef = s]
     ELSE /\ scene' = scene \cup {s}
          /\ UNCHANGED skyToView
  /\ viewState' = [viewState EXCEPT !.loadedModel = s]
  /\ isLoading' = FALSE
  /\ UNCHANGED <<error, cameraTransitionRef, camera, sessions,
                 frameWriters, returnTicks>>

\* the error callback of loader.load: handleModelError; with error set the
\* component renders the error display alone and SkyToView unmounts
LoadFail(s) ==
  /\ s \in pendingLoads
  /\ pendingLoads' = pendingLoads \ {s}
  /\ error' = "Failed to load model"
  /\ isLoading' = FALSE
  /\ scene' = SceneAfterUnmount(scene, skyToView)
  /\ skyToView' = NullRecord
  /\ UNCHANGED <<viewState, cameraTransitionRef, camera, sessions,
                 frameWriters, returnTicks>>

CameraNext ==
  \/ \E shipId \in MockShips : handleShipSelect(shipId) /\ UNCHANGED notCamera
  \/ handleViewDetails /\ UNCHANGED notCamera
  \/ handleCloseSkyToView /\ UNCHANGED notCamera
  \/ handleCloseShipInfo /\ UNCHANGED notCamera
  \/ Frame /\ UNCHANGED notCamera
  \/ \E s \in 1..MaxSessions : LoadDone(s) /\ UNCHANGED notCamera
  \/ \E s \in 1..MaxSessions : LoadFail(s) /\ UNCHANGED notCamera

CameraSpec == Init /\ [][CameraNext]_vars

(***************************************************************************)
(* interpolateAlongRoute as a function of its arguments                    *)
(***************************************************************************)
\* currentSegment = Math.floor(progress * totalSegments)
currentSegmentOf(route, progress) == (progress * (Len(route) - 1)) \div One

\* routes of one, two and three waypoints on the equator, and progress in
\* steps of 1/8 from 0 to 1
RouteInputs ==
  {<<Waypoint(0)>>,
   <<Waypoint(0), Waypoint(8000)>>,
   <<Waypoint(8000), Waypoint(0)>>,
   <<Waypoint(0), Waypoint(4000), Waypoint(8000)>>,
   <<Waypoint(8000), Waypoint(4000), Waypoint(0)>>,
   <<Waypoint(0), Waypoint(8000), Waypoint(0)>>,
   <<Waypoint(4000), Waypoint(0), Waypoint(8000)>>,
   <<Waypoint(8000), Waypoint(0), Waypoint(4000)>>}
ProgressInputs == {(n * One) \div 8 : n \in 0..8}

RouteInit ==
  /\ SystemInit
  /\ call \in [fn : {"interpolateAlongRoute"}, route : RouteInputs,
               progress : ProgressInputs]
  /\ result = NoResult

CallInterpolateAlongRoute ==
  /\ call.fn = "interpolateAlongRoute"
  /\ ~result.returned
  /\ result' = Returned([position |-> interpolateAlongRoute(call.route, call.progress),
                         currentSegment |-> currentSegmentOf(call.route, call.progress)])
  /\ UNCHANGED <<call, notPure>>

RouteNext == CallInterpolateAlongRoute

RouteSpec == RouteInit /\ [][RouteNext]_vars

\* C11: for a route of n >= 2 waypoints interpolateAlongRoute returns the
\* projection of the first waypoint at progress 0 and of the last waypoint
\* at progress 1, and for every progress in [0, 1) the segment index
\* floor(progress * (n - 1)) lies in 0..n-2.
C11_RouteEnds ==
  (result.returned /\ Len(call.route) >= 2) =>
    LET n == Len(call.route)
        first == call.route[1]
        last == call.route[n]
    IN /\ call.progress = 0 =>
            result.value.position = latLonToVector3(first.latitude, first.longitude)
       /\ call.progress = One =>
            result.value.position = latLonToVector3(last.latitude, last.longitude)
       /\ call.progress < One => result.value.currentSegment \in 0..(n - 2)

\* a route of three waypoints evaluated at progress 1, its ends apart
C11_Witness ==
  /\ result.returned
  /\ Len(call.route) = 3
  /\ call.progress = One
  /\ call.route[1] # call.route[3]
  /\ result.value.position
       = latLonToVector3(call.route[3].latitude, call.route[3].longitude)

(***************************************************************************)
(* fixCountryMesh: the edge resampler and the per-triangle subdivision.    *)
(* A ring vertex is a pair <<lon, lat>> in units of 1/6 degree, so that    *)
(* the steps of the edges used divide the differences exactly.  A corner   *)
(* of a triangle is an integer point on the sphere of radius MeshRadius.   *)
(***************************************************************************)
\* maxSegmentDeg = 1, in units of 1/6 degree
maxSegmentDeg == 6

Abs(n) == IF n < 0 THEN -n ELSE n
Max(a, b) == IF a > b THEN a ELSE b
\* Math.ceil(a / b) for a >= 0, b > 0
Ceil(a, b) == (a + b - 1) \div b

\* steps = Math.max(2, Math.ceil(Math.max(|dLon|, |dLat|) / maxSegmentDeg))
resampleSteps(start, end) ==
  Max(2, Ceil(Max(Abs(end[1] - start[1]), Abs(end[2] - start[2])), maxSegmentDeg))

\* resampleEdge(start, end): the points start + d * (i / steps), i = 0..steps
resampleEdge(start, end) ==
  LET steps == resampleSteps(start, end)
      dLon == end[1] - start[1]
      dLat == end[2] - start[2]
  IN [k \in 1..(steps + 1) |->
        <<start[1] + (dLon * (k - 1)) \div steps,
          start[2] + (dLat * (k - 1)) \div steps>>]

\* the loop of resamplePolygon from edge i on; every segment but the first
\* loses its first point
RECURSIVE resampleFrom(_, _)
resampleFrom(polygon, i) ==
  IF i > Len(polygon) - 1 THEN << >>
  ELSE LET segment == resampleEdge(polygon[i], polygon[i + 1])
       IN (IF i > 1 THEN Tail(segment) ELSE segment) \o resampleFrom(polygon, i + 1)

\* variant: every segment loses its first point
RECURSIVE resampleFrom_ShiftAll(_, _)
resampleFrom_ShiftAll(polygon, i) ==
  IF i > Len(polygon) - 1 THEN << >>
  ELSE Tail(resampleEdge(polygon[i], polygon[i + 1]))
         \o resampleFrom_ShiftAll(polygon, i + 1)

resamplePolygon_ShiftAll(polygon) == resampleFrom_ShiftAll(polygon, 1)

\* variant: no segment loses its first point
RECURSIVE resampleFrom_KeepJoints(_, _)
resampleFrom_KeepJoints(polygon, i) ==
  IF i > Len(polygon) - 1 THEN << >>
  ELSE resampleEdge(polygon[i], polygon[i + 1])
         \o resampleFrom_KeepJoints(polygon, i + 1)

resamplePolygon_KeepJoints(polygon) == resampleFrom_KeepJoints(polygon, 1)

resamplePolygon(polygon) == resampleFrom(polygon, 1)

\* the sphere radius of the mesh, in the unit of the corner points
MeshRadius == 9

Add3(a, b) == <<a[1] + b[1], a[2] + b[2], a[3] + b[3]>>
Scale3(a, k) == <<a[1] * k, a[2] * k, a[3] * k>>
Length3(a) == ISqrtIn(a[1] * a[1] + a[2] * a[2] + a[3] * a[3], 0, 64 * MeshRadius)

\* p.normalize().multiplyScalar(radius)
ProjectToSphere(p, r) ==
  LET len == Length3(p)
  IN IF len = 0 THEN p
     ELSE <<(p[1] * r) \div len, (p[2] * r) \div len, (p[3] * r) \div len>>

\* vertices[i][j]: weights w = 1 - u - v, u = i / n, v = j / n
GridVertex(v1, v2, v3, r, n, i, j) ==
  ProjectToSphere(Add3(Add3(Scale3(v1, n - i - j), Scale3(v2, i)), Scale3(v3, j)), r)

\* the indices (i, j) of the vertices the first pair of loops generates:
\* rows i = 0..n, columns j = 0..n - i
GridIndices(n) == {ix \in (0..n) \X (0..n) : ix[2] <= n - ix[1]}

\* variant: the upper triangle is read on the hypotenuse as well
GridReads_NoSkip(n, i, j) ==
  {<<i, j>>, <<i + 1, j>>, <<i, j + 1>>, <<i + 1, j + 1>>}

\* the indices of vertices[][] read while the triangles of the cell (i, j)
\* are emitted
GridReads(n, i, j) ==
  {<<i, j>>, <<i + 1, j>>, <<i, j + 1>>}
    \cup (IF j < n - i - 1 THEN {<<i + 1, j>>, <<i + 1, j + 1>>, <<i, j + 1>>} ELSE {})

\* the cells (i, j) the second pair of loops visits
GridCells(n) == {ix \in (0..(n - 1)) \X (0..(n - 1)) : ix[2] < n - ix[1]}

\* variant: the upper triangle is emitted for every cell
GridCell_NoSkip(v1, v2, v3, r, n, i, j) ==
  LET V(a, b) == GridVertex(v1, v2, v3, r, n, a, b)
      lower == <<V(i, j), V(i + 1, j), V(i, j + 1)>>
      upper == <<V(i + 1, j), V(i + 1, j + 1), V(i, j + 1)>>
  IN <<lower, upper>>

\* the triangles emitted for the cell (i, j) of the grid
GridCell(v1, v2, v3, r, n, i, j) ==
  LET V(a, b) == GridVertex(v1, v2, v3, r, n, a, b)
      lower == <<V(i, j), V(i + 1, j), V(i, j + 1)>>
      upper == <<V(i + 1, j), V(i + 1, j + 1), V(i, j + 1)>>
  IN IF j < n - i - 1 THEN <<lower, upper>> ELSE <<lower>>

\* the two loops of the triangle generation, from cell (i, j) on
RECURSIVE GridCellsFrom(_, _, _, _, _, _, _)
GridCellsFrom(v1, v2, v3, r, n, i, j) ==
  IF i >= n THEN << >>
  ELSE IF j >= n - i THEN GridCellsFrom(v1, v2, v3, r, n, i + 1, 0)
  ELSE GridCell(v1, v2, v3, r, n, i, j) \o GridCellsFrom(v1, v2, v3, r, n, i, j + 1)

\* tessellateSphericalTriangle: the emitted triangles, three vertices each
tessellateSphericalTriangle(v1, v2, v3, r, subdivisions) ==
  GridCellsFrom(v1, v2, v3, r, subdivisions, 0, 0)

\* the squared longest edge of the triangle (positions in 1e-3 units)
MaxEdgeSq(v1, v2, v3) == Max(DistSq(v1, v2), Max(DistSq(v2, v3), DistSq(v3, v1)))

\* variant: the thresholds are reached, not exceeded (>=)
calculateSubdivisionLevel_Inclusive(v1, v2, v3) ==
  LET maxEdgeSq == MaxEdgeSq(v1, v2, v3)
  IN IF maxEdgeSq >= 500 * 500 THEN 8
     ELSE IF maxEdgeSq >= 300 * 300 THEN 6
     ELSE IF maxEdgeSq >= 200 * 200 THEN 4
     ELSE IF maxEdgeSq >= 100 * 100 THEN 3
     ELSE IF maxEdgeSq >= 50 * 50 THEN 2
     ELSE 1

\* calculateSubdivisionLevel: maxEdge > 0.5, 0.3, 0.2, 0.1, 0.05, compared
\* as squares
calculateSubdivisionLevel(v1, v2, v3) ==
  LET maxEdgeSq == MaxEdgeSq(v1, v2, v3)
  IN IF maxEdgeSq > 500 * 500 THEN 8
     ELSE IF maxEdgeSq > 300 * 300 THEN 6
     ELSE IF maxEdgeSq > 200 * 200 THEN 4
     ELSE IF maxEdgeSq > 100 * 100 THEN 3
     ELSE IF maxEdgeSq > 50 * 50 THEN 2
     ELSE 1

\* variant: the requested minimum is used as it is
subdivisionsUsed_MinOnly(minSubdivisions, v1, v2, v3) == minSubdivisions

\* fixCountryMesh: Math.max(minSubdivisions, calculateSubdivisionLevel(...))
subdivisionsUsed(minSubdivisions, v1, v2, v3) ==
  Max(minSubdivisions, calculateSubdivisionLevel(v1, v2, v3))

\* inputs of the subdivision level: corners on a line, whose distances lie
\* at and next to every threshold, and the requested minimum
EdgeCorners ==
  {<<x, 0, 0>> : x \in {0, 50, 51, 100, 101, 200, 201, 300, 301, 500, 501}}
MinSubdivisionInputs == {-1, 0, 2, 3, 9}

\* inputs: rings of two to four vertices on a grid of whole degrees, and
\* triangles of integer points of the sphere at the subdivision levels 1..4
RingPoints == {<<0, 0>>, <<12, 0>>, <<18, 6>>, <<0, 18>>}
Rings == UNION {[1..n -> RingPoints] : n \in 2..4}
Corners == {<<9, 0, 0>>, <<1, 4, 8>>, <<4, 4, 7>>, <<8, 4, 1>>, <<7, 4, 4>>}
Subdivisions == {1, 2, 3, 4}

MeshInit ==
  /\ SystemInit
  /\ call \in [fn : {"resamplePolygon"}, polygon : Rings]
         \cup [fn : {"tessellateSphericalTriangle"},
               v1 : Corners, v2 : Corners, v3 : Corners, subdivisions : Subdivisions]
         \cup [fn : {"subdivisions"}, minSubdivisions : MinSubdivisionInputs,
               v1 : EdgeCorners, v2 : EdgeCorners, v3 : EdgeCorners]
  /\ result = NoResult

CallResamplePolygon ==
  /\ call.fn = "resamplePolygon"
  /\ ~result.returned
  /\ result' = Returned(resamplePolygon(call.polygon))
  /\ UNCHANGED <<call, notPure>>

CallTessellate ==
  /\ call.fn = "tessellateSphericalTriangle"
  /\ ~result.returned
  /\ result' = Returned(tessellateSphericalTriangle(call.v1, call.v2, call.v3,
                                                    MeshRadius, call.subdivisions))
  /\ UNCHANGED <<call, notPure>>

\* the subdivision level of one triangle in the loop of fixCountryMesh
CallSubdivisions ==
  /\ call.fn = "subdivisions"
  /\ ~result.returned
  /\ result' = Returned(
       [level |-> calculateSubdivisionLevel(call.v1, call.v2, call.v3),
        used |-> subdivisionsUsed(call.minSubdivisions, call.v1, call.v2, call.v3)])
  /\ UNCHANGED <<call, notPure>>

MeshNext == CallResamplePolygon \/ CallTessellate \/ CallSubdivisions

MeshSpec == MeshInit /\ [][MeshNext]_vars

\* sub occurs in seq as a subsequence, from index i of sub and k of seq on
RECURSIVE OccursInOrder(_, _, _, _)
OccursInOrder(sub, seq, i, k) ==
  IF i > Len(sub) THEN TRUE
  ELSE IF k > Len(seq) THEN FALSE
  ELSE IF seq[k] = sub[i] THEN OccursInOrder(sub, seq, i + 1, k + 1)
  ELSE OccursInOrder(sub, seq, i, k + 1)

EmittedVertices(triangles) ==
  {triangles[t][c] : t \in DOMAIN triangles, c \in 1..3}

LevelOfChordSq(chordSq) ==
  1 + (IF chordSq > 50 * 50 THEN 1 ELSE 0) + (IF chordSq > 100 * 100 THEN 1 ELSE 0)
    + (IF chordSq > 200 * 200 THEN 1 ELSE 0) + (IF chordSq > 300 * 300 THEN 2 ELSE 0)
    + (IF chordSq > 500 * 500 THEN 2 ELSE 0)

\* C23: calculateSubdivisionLevel is the step function of the triangle's
\* longest chord with the values 1, 2, 3, 4, 6, 8 at the strict thresholds
\* 0.05, 0.1, 0.2, 0.3, 0.5; it is monotone non-decreasing in the longest
\* chord; and the level used for the triangle is
\* max(minSubdivisions, that value).
C23_SubdivisionLevelSteps ==
  (result.returned /\ call.fn = "subdivisions") =>
    /\ result.value.level = LevelOfChordSq(MaxEdgeSq(call.v1, call.v2, call.v3))
    /\ result.value.level \in {1, 2, 3, 4, 6, 8}
    /\ \A w2, w3 \in EdgeCorners :
         MaxEdgeSq(Zero, w2, w3) >= MaxEdgeSq(call.v1, call.v2, call.v3) =>
           calculateSubdivisionLevel(Zero, w2, w3) >= result.value.level
    /\ result.value.used >= call.minSubdivisions
    /\ result.value.used >= result.value.level
    /\ result.value.used \in {call.minSubdivisions, result.value.level}

\* a triangle whose longest chord is exactly 0.3: level 4, below a requested
\* minimum of 9
C23_Witness ==
  /\ result.returned
  /\ call.fn = "subdivisions"
  /\ MaxEdgeSq(call.v1, call.v2, call.v3) = 300 * 300
  /\ result.value.level = 4
  /\ call.minSubdivisions = 9
  /\ result.value.used = 9

\* C24: for subdivision level n >= 1 the tessellation of one triangle
\* generates a grid of n + 1 rows with (n + 1)(n + 2) / 2 vertices and emits
\* exactly n * n triangles: a lower triangle for every cell and an upper
\* triangle for every cell but the last one of each row (the cell on the
\* hypotenuse).
C24_GridCounts ==
  (result.returned /\ call.fn = "tessellateSphericalTriangle") =>
    LET n == call.subdivisions
    IN /\ Cardinality({ix[1] : ix \in GridIndices(n)}) = n + 1
       /\ Cardinality(GridIndices(n)) = ((n + 1) * (n + 2)) \div 2
       /\ Len(result.value) = n * n
       /\ \A cell \in GridCells(n) :
            Len(GridCell(call.v1, call.v2, call.v3, MeshRadius, n, cell[1], cell[2]))
              = IF cell[2] = n - cell[1] - 1 THEN 1 ELSE 2

\* a triangle of three distinct corners tessellated at level 4 into 16
\* triangles
C24_Witness ==
  /\ result.returned
  /\ call.fn = "tessellateSphericalTriangle"
  /\ call.subdivisions = 4
  /\ Cardinality({call.v1, call.v2, call.v3}) = 3
  /\ Len(result.value) = 16

\* the sum of the steps of the edges before vertex i of the ring
RECURSIVE StepsBefore(_, _)
StepsBefore(polygon, i) ==
  IF i <= 1 THEN 0
  ELSE StepsBefore(polygon, i - 1) + resampleSteps(polygon[i - 1], polygon[i])

\* the largest coordinate difference of an edge, in 1/6 degree
MaxDelta(start, end) == Max(Abs(end[1] - start[1]), Abs(end[2] - start[2]))

ClosePolygon(polygon) ==
  IF Len(polygon) > 0 /\ polygon[1] # polygon[Len(polygon)]
  THEN Append(polygon, polygon[1])
  ELSE polygon

\* earcut(vertices) of the library: the closing duplicate is dropped, a ring
\* left with fewer than three points yields no triangle, a convex ring of n
\* points yields n - 2 triangles (here a fan of vertex indices)
earcut(vertices) ==
  LET n == IF Len(vertices) > 1 /\ vertices[1] = vertices[Len(vertices)]
           THEN Len(vertices) - 1
           ELSE Len(vertices)
  IN IF n < 3 THEN << >>
     ELSE [t \in 1..(n - 2) |-> <<0, t, t + 1>>]

\* fixCountryMesh(polygon, radius, minSubdivisions): the geometry, kept as
\* its triangles before subdivision; each is handed to
\* tessellateSphericalTriangle, which emits at least one triangle for it
fixCountryMesh(polygon, minSubdivisions) ==
  [triangles |-> earcut(ClosePolygon(polygon)),
   subdivisions |-> minSubdivisions]

\* processPolygon of ring number ring: one border line and one fill mesh
ProcessPolygon(published, polygon, ring) ==
  [lines |-> Append(published.lines, [ring |-> ring, points |-> polygon]),
   fills |-> Append(published.fills,
                    [ring |-> ring, geometry |-> fixCountryMesh(polygon, 3)])]

\* data.features.forEach(...): the rings in order, from ring number i on
RECURSIVE ProcessRings(_, _, _)
ProcessRings(published, rings, i) ==
  IF i > Len(rings) THEN published
  ELSE ProcessRings(ProcessPolygon(published, rings[i], i), rings, i + 1)

\* what setFills / setLines publish for the rings of the collection
LoadCountries(rings) == ProcessRings([lines |-> << >>, fills |-> << >>], rings, 1)

\* inputs: a closed triangle, an open convex quadrilateral, a ring of two
\* points and a ring of one point; collections of one to three rings
CountryRings ==
  {<<<<0, 0>>, <<12, 0>>, <<0, 18>>, <<0, 0>>>>,
   <<<<0, 0>>, <<12, 0>>, <<18, 6>>, <<0, 18>>>>,
   <<<<0, 0>>, <<12, 0>>>>,
   <<<<0, 0>>>>}
FeatureCollections == UNION {[1..n -> CountryRings] : n \in 1..3}

BordersInit ==
  /\ SystemInit
  /\ call \in [fn : {"loadCountries"}, rings : FeatureCollections]
  /\ result = NoResult

CallLoadCountries ==
  /\ call.fn = "loadCountries"
  /\ ~result.returned
  /\ result' = Returned(LoadCountries(call.rings))
  /\ UNCHANGED <<call, notPure>>

BordersNext == CallLoadCountries

BordersSpec == BordersInit /\ [][BordersNext]_vars

\* the triangulation of the ring failed: it produced no triangle
TriangulationFails(polygon) == earcut(ClosePolygon(polygon)) = << >>

\* C13 as stated: when the triangulation of one ring fails, no mesh is
\* published for that ring, and every other ring of the collection still
\* has its fill mesh and its border line published.
C13_FailedRingIsolated ==
  result.returned =>
    \A i \in DOMAIN call.rings :
      IF TriangulationFails(call.rings[i])
      THEN \A f \in DOMAIN result.value.fills : result.value.fills[f].ring # i
      ELSE /\ \E f \in DOMAIN result.value.fills : result.value.fills[f].ring = i
           /\ \E l \in DOMAIN result.value.lines : result.value.lines[l].ring = i

(***************************************************************************)
(* App: polling of the ships feed.  The timestamp (Date.now()) added to    *)
(* every record and lastUpdateTime are written and never read by the       *)
(* properties below; they are left out.                                    *)
(***************************************************************************)
\* polls that can be in flight together (interval 5 s, timeout 10 s, and the
\* poll of the online event)
MaxInflight == 2

\* the polls in flight without the k-th
WithoutPoll(k) == [i \in 1..(inflight - 1) |-> overtaken[IF i < k THEN i ELSE i + 1]]

\* the polls in flight after the k-th has succeeded: those issued before it
\* are overtaken
AfterSuccessOf(k) ==
  [i \in 1..(inflight - 1) |-> IF i < k THEN TRUE ELSE overtaken[i + 1]]

\* fetchShips up to its first await: mount, the 5 s interval
StartPoll ==
  /\ inflight < MaxInflight
  /\ connectionStatus' = "connecting"
  /\ inflight' = inflight + 1
  /\ overtaken' = Append(overtaken, FALSE)
  /\ UNCHANGED <<ships, isOnline, lastOutcome, stale, notPoll>>

\* the online event: setIsOnline(true) and fetchShips()
handleOnline ==
  /\ inflight < MaxInflight
  /\ isOnline' = TRUE
  /\ connectionStatus' = "connecting"
  /\ inflight' = inflight + 1
  /\ overtaken' = Append(overtaken, FALSE)
  /\ UNCHANGED <<ships, lastOutcome, stale, notPoll>>

\* the offline event
handleOffline ==
  /\ isOnline' = FALSE
  /\ UNCHANGED <<ships, connectionStatus, inflight, lastOutcome, overtaken, stale,
                 notPoll>>

\* the response of the k-th poll in flight is OK and its body parses: the
\* try block runs to its end
PollSucceeds(k, data) ==
  /\ k \in 1..inflight
  /\ inflight' = inflight - 1
  /\ ships' = data
  /\ connectionStatus' = "connected"
  /\ isOnline' = TRUE
  /\ lastOutcome' = Returned(data)
  /\ overtaken' = AfterSuccessOf(k)
  /\ stale' = overtaken[k]
  /\ UNCHANGED notPoll

\* variant: the catch block drops the list
PollFails_ClearsShips(k) ==
  /\ k \in 1..inflight
  /\ inflight' = inflight - 1
  /\ connectionStatus' = "error"
  /\ isOnline' = FALSE
  /\ lastOutcome' = NoResult
  /\ overtaken' = WithoutPoll(k)
  /\ ships' = << >>
  /\ UNCHANGED <<stale, notPoll>>

\* network error, timeout or non-OK status of the k-th poll in flight: the
\* catch block
PollFails(k) ==
  /\ k \in 1..inflight
  /\ inflight' = inflight - 1
  /\ connectionStatus' = "error"
  /\ isOnline' = FALSE
  /\ lastOutcome' = NoResult
  /\ overtaken' = WithoutPoll(k)
  /\ UNCHANGED <<ships, stale, notPoll>>

PollNext ==
  \/ StartPoll
  \/ handleOnline
  \/ handleOffline
  \/ \E k \in 1..MaxInflight, data \in Feeds : PollSucceeds(k, data)
  \/ \E k \in 1..MaxInflight : PollFails(k)

PollSpec == Init /\ [][PollNext]_vars

\* C14: when a poll fails the ships list held is left unchanged,
\* connectionStatus becomes "error" and isOnline false; a successful poll
\* replaces the list with its data and sets connectionStatus to "connected".
C14_FailedPollKeepsShips ==
  [][inflight' = inflight - 1 =>
       IF lastOutcome'.returned
       THEN /\ ships' = lastOutcome'.value
            /\ connectionStatus' = "connected"
       ELSE /\ ships' = ships
            /\ connectionStatus' = "error"
            /\ ~isOnline']_vars

\* a failed poll after a successful one: the list of the successful poll is
\* still held, with the error status
C14_Witness ==
  /\ ~lastOutcome.returned
  /\ connectionStatus = "error"
  /\ ~isOnline
  /\ Len(ships) = 2

(***************************************************************************)
(* ShipInspectionScene: the entry animation of CameraController, the 3 s   *)
(* timer of InspectionScene and the orbit controls.  Positions in 1e-3     *)
(* units, progress in 1/200.                                               *)
(***************************************************************************)
\* anim.progress += 0.02
EntryStep == 4

\* camera={{ position: [0, 25, 25] }} of the inspection canvas
InspectionCanvasCamera == <<0, 25000, 25000>>
\* startPos and targetPos of the entry animation
EntryStartPos == <<0, 10000, 10000>>
EntryTargetPos == <<-4000, 3000, 5000>>

\* a position the user can drag the camera to with the orbit controls
OrbitPositions == {<<6000, 4000, 6000>>}

\* THREE.MathUtils.smoothstep(x, 0, 1): x * x * (3 - 2 * x) between 0 and 1
smoothstep(x) ==
  IF x <= 0 THEN 0
  ELSE IF x >= CamOne THEN CamOne
  ELSE (x * x * (3 * CamOne - 2 * x)) \div (CamOne * CamOne)

\* useFrame of CameraController
ControllerFrame(anim, cam) ==
  IF anim # NullRecord /\ anim.isActive
  THEN LET progress == anim.progress + EntryStep
           done == progress >= CamOne
       IN [ref |-> [anim EXCEPT !.progress = progress, !.isActive = ~done],
           camera |-> IF done THEN anim.targetPos
                      ELSE LerpScaled(anim.startPos, anim.targetPos,
                                      smoothstep(progress), CamOne)]
  ELSE [ref |-> anim, camera |-> cam]

\* <OrbitControls enabled={!isAnimating} />
ControlsEnabled == showInspectionScene /\ ~isAnimating

\* the inspection scene mounts: useState(true), the effect of
\* CameraController creates the animation record, the timer is armed
OpenInspection ==
  /\ ~showInspectionScene
  /\ showInspectionScene' = TRUE
  /\ isAnimating' = TRUE
  /\ timer' = TRUE
  /\ animationRef' = [progress |-> 0, startPos |-> EntryStartPos,
                      targetPos |-> EntryTargetPos, isActive |-> TRUE]
  /\ inspectionCamera' = InspectionCanvasCamera
  /\ UNCHANGED notInspection

\* setTimeout(() => setIsAnimating(false), 3000) fires
TimerFires ==
  /\ showInspectionScene
  /\ timer
  /\ timer' = FALSE
  /\ isAnimating' = FALSE
  /\ UNCHANGED <<showInspectionScene, animationRef, inspectionCamera, notInspection>>

\* one rendered frame of the inspection canvas
InspectionFrame ==
  /\ showInspectionScene
  /\ animationRef' = ControllerFrame(animationRef, inspectionCamera).ref
  /\ inspectionCamera' = ControllerFrame(animationRef, inspectionCamera).camera
  /\ UNCHANGED <<showInspectionScene, isAnimating, timer, notInspection>>

\* the user drags the camera with the orbit controls
OrbitDrag(position) ==
  /\ ControlsEnabled
  /\ inspectionCamera' = position
  /\ UNCHANGED <<showInspectionScene, isAnimating, timer, animationRef, notInspection>>

\* the scene unmounts: clearTimeout(timer)
CloseInspection ==
  /\ showInspectionScene
  /\ showInspectionScene' = FALSE
  /\ isAnimating' = FALSE
  /\ timer' = FALSE
  /\ animationRef' = NullRecord
  /\ inspectionCamera' = NullVector
  /\ UNCHANGED notInspection

InspectionNext ==
  \/ OpenInspection
  \/ TimerFires
  \/ InspectionFrame
  \/ \E position \in OrbitPositions : OrbitDrag(position)
  \/ CloseInspection

InspectionSpec == Init /\ [][InspectionNext]_vars

\* C22 as stated: the orbit controls are never enabled while the entry
\* animation of CameraController is still active, under every interleaving
\* of the 3000 ms timer and the frames.
C22_ControlsAfterAnimation ==
  ControlsEnabled => ~animationRef.isActive

(***************************************************************************)
(* App: selection and route requests.  fetchRoute(shipId) is started by    *)
(* the effect on selectedShipId; its response calls setRoute whatever the  *)
(* selection is by then; the effect of ShipMarkers on [selectedShipId,     *)
(* route] gives the route state to the selected vessel.                    *)
(***************************************************************************)
\* the waypoints the server returns for a vessel
RouteOf(id) ==
  IF id = "s1" THEN <<Waypoint(0), Waypoint(8000)>>
  ELSE <<Waypoint(8000), Waypoint(0)>>

\* the feeds that report both vessels at their berths
RouteFeeds == {f \in Feeds : Len(f) = 2 /\ \A i \in 1..2 : f[i].lon = 0}

\* a ships update while routes are requested
RouteApplyFeed(newShips) ==
  /\ shipMeshes' = AfterFeed(newShips)
  /\ sinceReport' = [id \in FeedIds(newShips) |-> 0]
  /\ UNCHANGED <<routeVars, cameraVars, pureVars, pollVars, inspectionVars, effectVars>>

\* handleShipSelection(shipId): the effect of App starts fetchRoute(shipId)
\* and the effect of ShipMarkers runs with the route state as it is
handleShipSelection(shipId) ==
  /\ shipId # appSelectedShipId
  /\ appSelectedShipId' = shipId
  /\ routeFetches' = routeFetches \cup {shipId}
  /\ shipMeshes' = updateRoute(shipMeshes, shipId, appRoute)
  /\ UNCHANGED <<appRoute, notRoute>>

\* handleCloseShipInfo: setSelectedShipId(null), fetchRoute("") clears the
\* route state
handleDeselect ==
  /\ appSelectedShipId # Null
  /\ appSelectedShipId' = Null
  /\ appRoute' = << >>
  /\ UNCHANGED <<routeFetches, shipMeshes, notRoute>>

\* the response of fetchRoute(shipId) arrives: setRoute(waypoints), and the
\* effect of ShipMarkers runs with the new route
RouteFetched(shipId) ==
  /\ shipId \in routeFetches
  /\ routeFetches' = routeFetches \ {shipId}
  /\ appRoute' = RouteOf(shipId)
  /\ shipMeshes' = updateRoute(shipMeshes, appSelectedShipId, RouteOf(shipId))
  /\ UNCHANGED <<appSelectedShipId, notRoute>>

\* fetchRoute(shipId) fails: setRoute([])
RouteFetchFails(shipId) ==
  /\ shipId \in routeFetches
  /\ routeFetches' = routeFetches \ {shipId}
  /\ appRoute' = << >>
  /\ UNCHANGED <<appSelectedShipId, shipMeshes, notRoute>>

RouteFetchNext ==
  \/ \E newShips \in RouteFeeds : RouteApplyFeed(newShips)
  \/ \E shipId \in Ids : handleShipSelection(shipId)
  \/ handleDeselect
  \/ \E shipId \in Ids : RouteFetched(shipId)
  \/ \E shipId \in Ids : RouteFetchFails(shipId)

RouteFetchSpec == Init /\ [][RouteFetchNext]_vars

\* C26 as stated: whenever the kinematic state of a vessel holds a non-empty
\* route, that route is the waypoint list fetched for the vessel's own id,
\* under every interleaving of selection changes, route responses and route
\* failures.
C26_RouteOfOwnId ==
  \A id \in DOMAIN shipMeshes :
    shipMeshes[id].route # << >> => shipMeshes[id].route = RouteOf(id)

(***************************************************************************)
(* ShipMarkers: when the effect that applies the ships input runs.         *)
(* part_003 builds updateShipMeshes with useCallback(..., []) and a        *)
(* functional setShipMeshes; part_000 builds it with                       *)
(* useCallback(..., [shipMeshes, radius]), so that every write of the      *)
(* vessel map gives the callback a new identity.                           *)
(***************************************************************************)
\* the dependency lists of the two versions of the callback
CallbackDeps == {"none", "shipMeshes"}

\* the runs of the effect that are counted after one change of ships
MaxEffectRuns == 3

\* ships inputs: s1 under way at each position
EffectFeeds == {f \in Feeds : Len(f) = 1 /\ f[1].id = "s1" /\ f[1].speed = 36}

\* a write of the vessel map re-creates the callback, and with it makes the
\* effect due, exactly if the callback depends on shipMeshes
DueAfterWrite == effectDue \/ callbackDeps = "shipMeshes"

\* the component mounts: every effect is due
MountShipMarkers(deps) ==
  /\ callbackDeps = Null
  /\ callbackDeps' = deps
  /\ effectDue' = TRUE
  /\ effectRuns' = 0
  /\ UNCHANGED <<vesselVars, pollVars, notEffect>>

\* App: setShips(newShips), a new array
ShipsChange(newShips) ==
  /\ callbackDeps # Null
  /\ ships' = newShips
  /\ effectDue' = TRUE
  /\ effectRuns' = 0
  /\ UNCHANGED <<callbackDeps, vesselVars, connectionStatus, isOnline, inflight,
                 lastOutcome, overtaken, stale, notEffect>>

\* useEffect(() => updateShipMeshes(ships), [ships, updateShipMeshes])
RunEffect ==
  /\ callbackDeps # Null
  /\ effectDue
  /\ effectRuns < MaxEffectRuns
  /\ shipMeshes' = AfterFeed(ships)
  /\ sinceReport' = [id \in FeedIds(ships) |-> 0]
  /\ effectRuns' = effectRuns + 1
  /\ effectDue' = (callbackDeps = "shipMeshes")
  /\ UNCHANGED <<callbackDeps, pollVars, notEffect>>

\* useFrame: the tick writes the vessel map
EffectTick(delta) ==
  /\ callbackDeps # Null
  /\ shipMeshes' = AfterTick(delta)
  /\ sinceReport' = SinceAfter(shipMeshes', sinceReport, delta)
  /\ effectDue' = DueAfterWrite
  /\ UNCHANGED <<callbackDeps, effectRuns, pollVars, notEffect>>

EffectNext ==
  \/ \E deps \in CallbackDeps : MountShipMarkers(deps)
  \/ \E newShips \in EffectFeeds : ShipsChange(newShips)
  \/ RunEffect
  \/ \E delta \in Deltas : EffectTick(delta)

EffectSpec == Init /\ [][EffectNext]_vars

\* C28 as stated: the effect that applies the ships input runs once for each
\* change of the ships input: neither its own write of the vessel map nor
\* the write of the tick makes it due again, so that no vessel is reset to
\* progress 0 between two feed updates and the effect comes to rest.
C28_EffectSettles ==
  /\ effectRuns <= 1
  /\ effectRuns = 1 => ~effectDue

\* C29 as stated: with overlapping polls the list held is never one that a
\* slower response to an earlier request has written over the data of a
\* request issued later; once every outstanding response has arrived the
\* list is the one of the most recently issued successful request.
C29_LatestResponseHeld == ~stale

(***************************************************************************)
(* Properties of the vessel state machine.  A property of an operation is  *)
(* stated of the map the operation leaves (AfterFeed, AfterRoute,          *)
(* AfterTick) in every reachable state.                                    *)
(***************************************************************************)
Known == DOMAIN shipMeshes
ReportPositions == {latLonToVector3(0, lon) : lon \in ReportLons}
NoiseSq == NoiseThreshold * NoiseThreshold
Selections == Ids \cup {Null}

TickKeepsOrRaisesProgress ==
  \A delta \in Deltas : \A id \in Known :
    AfterTick(delta)[id].interpolationProgress >= shipMeshes[id].interpolationProgress

\* C1 as stated: progress never decreases across ticks, and a report resets
\* it to 0 exactly when it changes targetPosition (a report that leaves
\* targetPosition unchanged leaves the progress alone).
C1_ResetOnlyOnTargetChange ==
  [][
      /\ (\E delta \in Deltas : Tick(delta)) =>
           (\A id \in Known :
              shipMeshes'[id].interpolationProgress
                >= shipMeshes[id].interpolationProgress)
      /\ (\E newShips \in Feeds : ApplyFeed(newShips)) =>
           (\A id \in Known \cap DOMAIN shipMeshes' :
              IF shipMeshes'[id].targetPosition # shipMeshes[id].targetPosition
              THEN shipMeshes'[id].interpolationProgress = 0
              ELSE shipMeshes'[id].interpolationProgress
                     = shipMeshes[id].interpolationProgress)
    ]_vars

\* C1 amended: progress never decreases across ticks and route updates, and
\* every report for an already-known vessel resets it to 0, whether or not
\* the report changes targetPosition.
C1_ResetOnEveryReport ==
  /\ TickKeepsOrRaisesProgress
  /\ \A sel \in Selections, route \in Routes : \A id \in Known :
       AfterRoute(sel, route)[id].interpolationProgress
         = shipMeshes[id].interpolationProgress
  /\ \A newShips \in Feeds : \A id \in Known \cap FeedIds(newShips) :
       AfterFeed(newShips)[id].interpolationProgress = 0

\* a vessel reset by a report that left its target where it was, next to a
\* vessel in mid-interpolation
C1_Witness ==
  \E a \in Known, b \in Known :
    /\ shipMeshes[a].interpolationProgress = 0
    /\ shipMeshes[a].targetPosition = shipMeshes[a].currentPosition
    /\ shipMeshes[a].previousPosition = shipMeshes[a].currentPosition
    /\ shipMeshes[b].interpolationProgress > 0
    /\ shipMeshes[b].interpolationProgress < One

\* C2: a vessel with isMoving = true has interpolationProgress < 1, reported
\* speed > 0 and a chord from previousPosition to targetPosition longer than
\* the noise threshold 0.001.
C2_MovingImplies ==
  \A id \in Known :
    shipMeshes[id].isMoving =>
      /\ shipMeshes[id].interpolationProgress < One
      /\ shipMeshes[id].speed > 0
      /\ DistSq(shipMeshes[id].previousPosition, shipMeshes[id].targetPosition) > NoiseSq

\* a moving vessel in mid-interpolation
C2_Witness ==
  \E id \in Known :
    shipMeshes[id].isMoving /\ shipMeshes[id].interpolationProgress > 0

\* the seconds ticked since the report have reached
\* timeToTarget = distance / (speed || 0.001)
TimeToTargetPassed(id) ==
  sinceReport[id] * SpeedOrFallback(knotsToUnitsPerSecond(shipMeshes[id].speed))
    >= 3600 * distanceTo(shipMeshes[id].previousPosition, shipMeshes[id].targetPosition)

\* C3 as stated: with no new report, once the ticks since the report add up
\* to timeToTarget (ceil(timeToTarget / dt) ticks of a fixed dt > 0), the
\* vessel's interpolationProgress is exactly 1, from every state a report
\* can leave the vessel in.
C3_ReachesOneInTime ==
  \A id \in Known :
    (sinceReport[id] > 0 /\ TimeToTargetPassed(id)) =>
      shipMeshes[id].interpolationProgress = One

\* C4: a vessel whose interpolationProgress is 1 is not moving and its
\* currentPosition is exactly its targetPosition, with or without a route:
\* this holds from the tick that reaches 1 until the next report.
C4_SnapAtOne ==
  \A id \in Known :
    shipMeshes[id].interpolationProgress >= One =>
      /\ ~shipMeshes[id].isMoving
      /\ shipMeshes[id].currentPosition = shipMeshes[id].targetPosition

\* a vessel that was ticked along a route of two waypoints and completed away
\* from the point of the route it had reached
C4_Witness ==
  \E id \in Known :
    /\ shipMeshes[id].interpolationProgress = One
    /\ Len(shipMeshes[id].route) > 1
    /\ shipMeshes[id].routeProgress > 0
    /\ shipMeshes[id].previousPosition # shipMeshes[id].targetPosition
    /\ interpolateAlongRoute(shipMeshes[id].route, shipMeshes[id].routeProgress)
         # shipMeshes[id].targetPosition

\* C5: a report for an already-known id sets interpolationProgress to 0,
\* previousPosition to the currentPosition before the report and
\* targetPosition to the projection of the reported position, and leaves
\* currentPosition, orientation, route and routeProgress unchanged, whether
\* the vessel was idle or still interpolating.
C5_ReportSupersedes ==
  \A newShips \in Feeds : \A id \in Known \cap FeedIds(newShips) :
    LET old == shipMeshes[id]
        new == AfterFeed(newShips)[id]
    IN /\ new.interpolationProgress = 0
       /\ new.previousPosition = old.currentPosition
       /\ \E i \in DOMAIN newShips :
            /\ newShips[i].id = id
            /\ new.targetPosition = latLonToVector3(newShips[i].lat, newShips[i].lon)
       /\ new.currentPosition = old.currentPosition
       /\ new.quaternion = old.quaternion
       /\ new.route = old.route
       /\ new.routeProgress = old.routeProgress

\* a vessel reported again in mid-interpolation: it starts over from a
\* position between two reported positions
C5_Witness ==
  \E id \in Known :
    /\ shipMeshes[id].interpolationProgress = 0
    /\ shipMeshes[id].isMoving
    /\ shipMeshes[id].previousPosition \notin ReportPositions
    /\ shipMeshes[id].currentPosition = shipMeshes[id].previousPosition

\* C6: a report whose projected position is within the noise threshold
\* (chord <= 0.001) of the vessel's current position leaves the vessel not
\* moving, whatever the reported speed.
C6_NoiseNotMoving ==
  \A newShips \in Feeds : \A id \in Known \cap FeedIds(newShips) :
    (\A i \in DOMAIN newShips :
       newShips[i].id = id =>
         DistSq(shipMeshes[id].currentPosition,
                latLonToVector3(newShips[i].lat, newShips[i].lon)) <= NoiseSq)
      => ~AfterFeed(newShips)[id].isMoving

\* a vessel reported with speed > 0 at exactly the threshold distance from
\* where it is, and left not moving
C6_Witness ==
  \E id \in Known :
    /\ shipMeshes[id].interpolationProgress = 0
    /\ ~shipMeshes[id].isMoving
    /\ shipMeshes[id].speed > 0
    /\ DistSq(shipMeshes[id].currentPosition, shipMeshes[id].targetPosition) = NoiseSq

\* the fields that make a record the same vessel record
SameRecord(old, new) ==
  /\ new.id = old.id
  /\ new.currentPosition = old.currentPosition
  /\ new.quaternion = old.quaternion
  /\ new.route = old.route
  /\ new.routeProgress = old.routeProgress
  /\ new.currentRouteSegment = old.currentRouteSegment

IsFresh(rec, id) ==
  /\ rec.id = id
  /\ rec.currentPosition = rec.targetPosition
  /\ rec.previousPosition = rec.targetPosition
  /\ rec.targetPosition \in ReportPositions
  /\ rec.interpolationProgress = One
  /\ ~rec.isMoving
  /\ rec.route = <<>>
  /\ rec.routeProgress = 0

\* C7: after a feed the ids held are exactly the ids of the feed: an unknown
\* id gets a fresh record, a known id keeps its record, an absent id is
\* removed; ticks and route updates neither add nor remove ids.
C7_IdsFollowFeed ==
  /\ \A newShips \in Feeds :
       /\ DOMAIN AfterFeed(newShips) = FeedIds(newShips)
       /\ \A id \in FeedIds(newShips) \ Known : IsFresh(AfterFeed(newShips)[id], id)
       /\ \A id \in FeedIds(newShips) \cap Known :
            SameRecord(shipMeshes[id], AfterFeed(newShips)[id])
  /\ \A delta \in Deltas : DOMAIN AfterTick(delta) = Known
  /\ \A sel \in Selections, route \in Routes : DOMAIN AfterRoute(sel, route) = Known

\* one vessel left after the other was dropped by a feed: a known vessel,
\* reported again, that kept the route it was given
C7_Witness ==
  /\ Known = {"s1"}
  /\ shipMeshes["s1"].interpolationProgress = 0
  /\ Len(shipMeshes["s1"].route) > 0
  /\ shipMeshes["s1"].routeProgress > 0

\* C8 as stated: a tick with dt = 0 leaves the kinematic state of every
\* vessel unchanged, vessels with a route included.
C8_ZeroTickIdentity == [][Tick(0) => shipMeshes' = shipMeshes]_vars

\* Idle: interpolationProgress >= 1 and isMoving = false
Idle(ship) == ship.interpolationProgress >= One /\ ~ship.isMoving

\* Interpolating: isMoving = true and the progress advances on each tick with
\* dt > 0
Interpolating(ship) ==
  /\ ship.isMoving
  /\ \A delta \in Deltas \ {0} :
       TickShip(ship, delta).interpolationProgress > ship.interpolationProgress

\* C15 as stated: after any sequence of reports and ticks every vessel is
\* Idle or Interpolating (never both), and a report for a known vessel
\* always leaves it Interpolating.
C15_IdleOrInterpolating ==
  /\ \A id \in Known :
       /\ Idle(shipMeshes[id]) \/ Interpolating(shipMeshes[id])
       /\ ~(Idle(shipMeshes[id]) /\ Interpolating(shipMeshes[id]))
  /\ \A newShips \in Feeds : \A id \in Known \cap FeedIds(newShips) :
       Interpolating(AfterFeed(newShips)[id])

\* progress + dt / timeToTarget with timeToTarget = distance / rate, capped
\* at 1 (rate in units an hour, dt in seconds)
ProgressAtRate(ship, delta, rate) ==
  Min(One, ship.interpolationProgress
             + (One * delta * rate)
                 \div (3600 * distanceTo(ship.previousPosition, ship.targetPosition)))

\* the tick advances the vessel: isMoving and interpolationProgress < 1
Advancing(ship) == ship.isMoving /\ ship.interpolationProgress < One

\* C16 as stated: on each tick of an interpolating vessel the progress
\* becomes min(1, progress + dt / timeToTarget) with timeToTarget =
\* distance / max(speedRate, 0.001).
C16_TimeToTargetWithMax ==
  \A id \in Known : \A delta \in Deltas :
    Advancing(shipMeshes[id]) =>
      AfterTick(delta)[id].interpolationProgress
        = ProgressAtRate(shipMeshes[id], delta,
            SpeedOrFallback_Max(knotsToUnitsPerSecond(shipMeshes[id].speed)))

\* C16, amended: an interpolating vessel has a reported speed > 0, and on
\* each of its ticks the progress becomes min(1, progress + dt / timeToTarget)
\* with timeToTarget = distance / speedRate, speedRate = knots * 0.01 / 3600:
\* the fallback 0.001 stands in for a speedRate of 0 only and does not bound
\* the rate from below.
C16_TimeToTargetAtSpeed ==
  \A id \in Known : \A delta \in Deltas :
    Advancing(shipMeshes[id]) =>
      /\ shipMeshes[id].speed > 0
      /\ AfterTick(delta)[id].interpolationProgress
           = ProgressAtRate(shipMeshes[id], delta,
               knotsToUnitsPerSecond(shipMeshes[id].speed))

\* a vessel ticked into mid-interpolation at a speed below the fallback rate
C16_Witness ==
  \E id \in Known :
    /\ Advancing(shipMeshes[id])
    /\ shipMeshes[id].interpolationProgress > 0
    /\ sinceReport[id] > 0
    /\ knotsToUnitsPerSecond(shipMeshes[id].speed) < 36000

\* C17 as stated: for a vessel with a route of two or more waypoints every
\* tick advances routeProgress by dt * 0.01, capped at 1, whatever
\* interpolationProgress and isMoving are, and the tick places currentPosition
\* at the point of the route that routeProgress names.
C17_RouteProgressIndependent ==
  \A id \in Known : \A delta \in Deltas :
    Len(shipMeshes[id].route) > 1 =>
      LET old == shipMeshes[id]
          new == AfterTick(delta)[id]
      IN /\ new.routeProgress = Min(One, old.routeProgress + delta * RouteSpeed)
         /\ new.currentPosition \in
              {interpolateAlongRoute(old.route, old.routeProgress),
               interpolateAlongRoute(new.route, new.routeProgress)}

\* C18: a route update with no selected id, with a selected id that has no
\* kinematic state, or with an empty route leaves every vessel unchanged;
\* any other route update sets the selected vessel's route, resets its
\* routeProgress and currentRouteSegment to 0, and changes nothing else of
\* that vessel and nothing of any other vessel.
C18_RouteUpdateScope ==
  \A selectedShipId \in Selections : \A route \in Routes :
    LET new == AfterRoute(selectedShipId, route)
    IN IF selectedShipId = Null \/ selectedShipId \notin Known \/ route = << >>
       THEN new = shipMeshes
       ELSE /\ DOMAIN new = Known
            /\ \A id \in Known \ {selectedShipId} : new[id] = shipMeshes[id]
            /\ new[selectedShipId] =
                 [shipMeshes[selectedShipId] EXCEPT
                    !.route = route, !.routeProgress = 0, !.currentRouteSegment = 0]

\* two vessels in mid-interpolation, one of them given a route while the
\* other has none
C18_Witness ==
  \E a, b \in Known :
    /\ Len(shipMeshes[a].route) > 1
    /\ shipMeshes[a].routeProgress = 0
    /\ shipMeshes[a].interpolationProgress > 0
    /\ shipMeshes[b].route = << >>
    /\ shipMeshes[b].isMoving

(***************************************************************************)
(* Properties of the camera controllers.                                   *)
(***************************************************************************)
\* C9 as stated: at most one camera transition is active on the globe camera
\* at any time: in no frame do the return transition of ShipMarkers and the
\* fly-to transition of SkyToView both advance and both write
\* camera.position.
C9_OneWriterPerFrame == frameWriters <= 1

\* C10: a return transition (from A to B, increment 0.02 a tick) is not done
\* after fewer than 50 ticks, and its 50th tick leaves the transition done
\* and, when no fly-to transition writes the camera in that frame, the
\* camera position exactly B.
C10_ReturnIn50Ticks ==
  cameraTransitionRef # NullRecord =>
    /\ cameraTransitionRef.isAnimating
    /\ returnTicks < 50
    /\ cameraTransitionRef.progress = returnTicks * ReturnStep
    /\ IF returnTicks + 1 < 50
       THEN /\ AfterMarkersFrame.ref # NullRecord
            /\ AfterMarkersFrame.ref.isAnimating
            /\ AfterMarkersFrame.ref.targetPos = cameraTransitionRef.targetPos
       ELSE /\ AfterMarkersFrame.ref = NullRecord
            /\ ~FlyActive =>
                 AfterSkyFrame.camera.position = cameraTransitionRef.targetPos

\* a return transition that started away from its target, ran alone and was
\* completed by its 50th tick, the camera back where it was
C10_Witness ==
  /\ cameraTransitionRef = NullRecord
  /\ returnTicks = 50
  /\ frameWriters = 1
  /\ skyToView = NullRecord
  /\ camera.position = InitialCameraPosition
  /\ camera.lookAt # Zero

\* C19 as stated: in every reachable state the progress of every camera
\* transition record, the return transition of ShipMarkers (increment 0.02)
\* and the fly-to transition of SkyToView (increment 0.015), lies in [0, 1],
\* the state in which the transition completes included.
C19_ProgressInUnitInterval ==
  /\ cameraTransitionRef # NullRecord =>
       cameraTransitionRef.progress \in 0..CamOne
  /\ skyToView # NullRecord =>
       skyToView.animationRef.progress \in 0..CamOne

\* C20 as stated: in every frame of an active camera transition the look-at
\* target is recomputed and applied; in the frame where the progress reaches
\* 1 the position is set to the exact target and the transition stops
\* animating; and with no transition active a frame leaves the camera as
\* it is.
C20_LookAtEveryTick ==
  /\ ReturnActive =>
       /\ AfterMarkersFrame.looked
       /\ cameraTransitionRef.progress + ReturnStep >= CamOne =>
            /\ AfterMarkersFrame.camera.position = cameraTransitionRef.targetPos
            /\ AfterMarkersFrame.ref = NullRecord
  /\ FlyActive =>
       /\ AfterSkyFrame.looked
       /\ skyToView.animationRef.progress + ANIMATION_SPEED >= CamOne =>
            /\ AfterSkyFrame.camera.position = skyToView.animationRef.targetPos
            /\ ~AfterSkyFrame.sky.animationRef.isAnimating
  /\ (~ReturnActive /\ ~FlyActive) => AfterSkyFrame.camera = camera

\* C21: a frame starts the ship model load of SkyToView only when it
\* completes the fly-to transition (progress >= 1, position set to the exact
\* target, animation stopped); the completing frame does start it; and a
\* transition that has completed is no longer animating, so no later frame
\* of the same transition starts the load again.
C21_LoadOncePerTransition ==
  /\ AfterSkyFrame.load =>
       /\ FlyActive
       /\ AfterSkyFrame.sky.animationRef.progress >= CamOne
       /\ AfterSkyFrame.camera.position = skyToView.animationRef.targetPos
       /\ ~AfterSkyFrame.sky.animationRef.isAnimating
  /\ (FlyActive /\ skyToView.animationRef.progress + ANIMATION_SPEED >= CamOne)
       => AfterSkyFrame.load
  /\ (skyToView # NullRecord /\ skyToView.animationRef.progress >= CamOne) =>
       /\ ~skyToView.animationRef.isAnimating
       /\ ~AfterSkyFrame.load
  /\ (skyToView # NullRecord /\ skyToView.animationRef.progress < CamOne) =>
       skyToView.session \notin pendingLoads

\* the fly-to transition has completed, the camera is at its target and the
\* model load of this session is in flight
C21_Witness ==
  /\ skyToView # NullRecord
  /\ ~skyToView.animationRef.isAnimating
  /\ skyToView.session \in pendingLoads
  /\ camera.position = skyToView.animationRef.targetPos

\* C27 as stated: whenever the sky view is closed (mode normal, SkyToView
\* unmounted) no sky-view ship model is attached to the scene and
\* loadedModel is null, a model load that completes after the unmount
\* included.
C27_ClosedMeansNoModel ==
  (viewState.mode = "normal" /\ skyToView = NullRecord) =>
    /\ scene = {}
    /\ viewState.loadedModel = NullModel

====
